---------------------------- MODULE Spec2Model ----------------------------
(***************************************************************************)
(* gozipstreamer: member validation (zipstreamer/file_entry.go), manifest  *)
(* parsing and file-name escaping (zipstreamer/zip_descriptor.go), the     *)
(* size estimate and request handler (processZipRequest, calculateZipSize) *)
(* and the streaming loop (zipstreamer/zip_streamer.go).                   *)
(* Spec is one request of the server with the size estimate; SpecDirect    *)
(* the server without it; SpecConcurrent two requests at once;             *)
(* SpecManifest a manifest parsed and streamed; SpecName the file name.    *)
(*                                                                         *)
(* Strings are sequences of one-character strings; file names given to     *)
(* EscapedSuggestedFilename are sequences of code points (runes).          *)
(***************************************************************************)
EXTENDS Integers, Sequences, FiniteSets, TLC

VARIABLES
    urlPrefix,      \* os.Getenv("ZS_URL_PREFIX"), fixed for the process
    pc,             \* position of the request / call being modelled
    call,           \* the last NewFileEntry call: its arguments and its result
    payload,        \* the manifest handed to UnmarshalJsonZipDescriptor
    zd,             \* the ZipDescriptor (suggestedFilenameRaw, files)
    unmarshalErr,   \* the error UnmarshalJsonZipDescriptor returned
    escaped,        \* the last result of EscapedSuggestedFilename
    fileSizeMap,    \* package variable fileSizeMap: zipPath -> size
    fileEntries,    \* processZipRequest's fileEntries / ZipStream.entries
    itemSizes,      \* item.Size of the listing item behind each of fileEntries,
                    \* as long as the traversal lasts
    contentLength,  \* the Content-Length header processZipRequest set (-1: none)
    httpError,      \* the message of the handler's http.Error call ("": none)
    idx,            \* StreamAllFiles: index of the entry of the current iteration
    success,        \* StreamAllFiles: success
    zw,             \* the zip.Writer: dir, last, count, flushed, err, closed
    sinkOk,         \* FALSE once the consumer of the destination disconnected
    resp,           \* the response of the current iteration's GET
    openBodies,     \* indices of entries whose response body is open
    fetched,        \* history: the GETs issued so far and their outcomes
    ret,            \* what StreamAllFiles returned
    reqs            \* two concurrent processZipRequest executions: their locals

vars == <<urlPrefix, pc, call, payload, zd, unmarshalErr, escaped, fileSizeMap,
          fileEntries, itemSizes, contentLength, httpError, idx, success, zw,
          sinkOk, resp, openBodies, fetched, ret, reqs>>

-----------------------------------------------------------------------------
(* Bounds of the model *)

MaxPathLen == 4     \* longest zipPath drawn for a direct NewFileEntry call
MaxFiles == 2       \* most entries of a manifest
MaxItems == 2       \* most items the folder listing yields for a request
MaxSize == 1        \* largest file size / body length
MaxNameLen == 5     \* longest enumerated raw suggested file name
MaxEntries == 1     \* entries of a manifest whose files are streamed

-----------------------------------------------------------------------------
(* strings *)

HasPrefix(s, p) == Len(s) >= Len(p) /\ SubSeq(s, 1, Len(p)) = p

HasSuffix(s, p) == Len(s) >= Len(p) /\ SubSeq(s, Len(s) - Len(p) + 1, Len(s)) = p

RECURSIVE SeqsUpTo(_, _)
SeqsUpTo(S, n) ==
    IF n = 0 THEN {<<>>}
    ELSE LET shorter == SeqsUpTo(S, n - 1)
         IN  shorter \cup {Append(s, c) : s \in {t \in shorter : Len(t) = n - 1}, c \in S}

Range(s) == {s[k] : k \in 1..Len(s)}

-----------------------------------------------------------------------------
(* path.Clean and path.IsAbs, as zipstreamer.NewFileEntry calls them *)

Slash == "/"
Dot == "."

\* the backtracking of a ".." element: with w already decremented once, step w
\* down while buf[w] (0-based, the byte just past the kept part) is no separator
RECURSIVE Backtrack(_, _, _)
Backtrack(buf, w, dotdot) ==
    IF w > dotdot /\ buf[w + 1] # Slash
    THEN Backtrack(buf, w - 1, dotdot)
    ELSE SubSeq(buf, 1, w)

\* the end (exclusive) of the path element that starts at r
RECURSIVE ElemEnd(_, _)
ElemEnd(path, r) ==
    IF r <= Len(path) /\ path[r] # Slash THEN ElemEnd(path, r + 1) ELSE r

\* the loop of path.Clean; r is 1-based, out is the lazybuf written so far
RECURSIVE CleanLoop(_, _, _, _, _)
CleanLoop(path, r, out, dotdot, rooted) ==
    LET n == Len(path) IN
    IF r > n THEN out
    ELSE IF path[r] = Slash
         THEN CleanLoop(path, r + 1, out, dotdot, rooted)
    ELSE IF path[r] = Dot /\ (r = n \/ path[r + 1] = Slash)
         THEN CleanLoop(path, r + 1, out, dotdot, rooted)
    ELSE IF path[r] = Dot /\ path[r + 1] = Dot /\ (r + 1 = n \/ path[r + 2] = Slash)
         THEN IF Len(out) > dotdot
              THEN CleanLoop(path, r + 2,
                             Backtrack(out, Len(out) - 1, dotdot),
                             dotdot, rooted)
              ELSE IF ~rooted
              THEN LET o2 == (IF Len(out) > 0 THEN Append(out, Slash) ELSE out)
                             \o <<Dot, Dot>>
                   IN  CleanLoop(path, r + 2, o2, Len(o2), rooted)
              ELSE CleanLoop(path, r + 2, out, dotdot, rooted)
    ELSE LET e == ElemEnd(path, r)
             o1 == IF (rooted /\ Len(out) # 1) \/ (~rooted /\ Len(out) # 0)
                   THEN Append(out, Slash) ELSE out
         IN  CleanLoop(path, e, o1 \o SubSeq(path, r, e - 1), dotdot, rooted)

Clean(path) ==
    IF path = <<>> THEN <<Dot>>
    ELSE LET rooted == path[1] = Slash
             out == IF rooted THEN CleanLoop(path, 2, <<Slash>>, 1, TRUE)
                              ELSE CleanLoop(path, 1, <<>>, 0, FALSE)
         IN  IF out = <<>> THEN <<Dot>> ELSE out

IsAbs(path) == Len(path) > 0 /\ path[1] = Slash

\* filepath.Join of two elements: empty elements are ignored, the result is cleaned
Join(a, b) ==
    IF a = <<>> /\ b = <<>> THEN <<>>
    ELSE IF a = <<>> THEN Clean(b)
    ELSE IF b = <<>> THEN Clean(a)
    ELSE Clean(a \o <<Slash>> \o b)

\* the elements of a path between its separators (empty elements included)
RECURSIVE Segments(_)
Segments(path) ==
    LET e == ElemEnd(path, 1) IN
    IF e > Len(path) THEN <<path>>
    ELSE <<SubSeq(path, 1, e - 1)>> \o Segments(SubSeq(path, e + 1, Len(path)))


-----------------------------------------------------------------------------
(* net/url: the part of url.Parse and URL.String that NewFileEntry and        *)
(* StreamAllFiles use, for URL strings without query, fragment or userinfo    *)

LowerLetters == {"a", "f", "h", "p", "s", "t", "x"}
UpperLetters == {"H", "P", "S", "T"}
HexDigits == {"a", "f"}

ToLowerChar(c) ==
    CASE c = "H" -> "h"
      [] c = "P" -> "p"
      [] c = "S" -> "s"
      [] c = "T" -> "t"
      [] OTHER -> c

ToLower(s) == [k \in 1..Len(s) |-> ToLowerChar(s[k])]

\* strings.Index of a one-byte separator, 1-based; 0 when absent
RECURSIVE IndexFrom(_, _, _)
IndexFrom(s, c, k) ==
    IF k > Len(s) THEN 0 ELSE IF s[k] = c THEN k ELSE IndexFrom(s, c, k + 1)

IndexOf(s, c) == IndexFrom(s, c, 1)

\* getScheme: [err, scheme, rest]
RECURSIVE GetSchemeFrom(_, _)
GetSchemeFrom(rawURL, i) ==
    IF i > Len(rawURL) THEN [err |-> FALSE, scheme |-> <<>>, rest |-> rawURL]
    ELSE LET c == rawURL[i] IN
         IF c \in LowerLetters \cup UpperLetters THEN GetSchemeFrom(rawURL, i + 1)
         ELSE IF c \in {"+", "-", "."}
              THEN IF i = 1 THEN [err |-> FALSE, scheme |-> <<>>, rest |-> rawURL]
                            ELSE GetSchemeFrom(rawURL, i + 1)
         ELSE IF c = ":"
              THEN IF i = 1 THEN [err |-> TRUE, scheme |-> <<>>, rest |-> <<>>]
                   ELSE [err |-> FALSE, scheme |-> SubSeq(rawURL, 1, i - 1),
                         rest |-> SubSeq(rawURL, i + 1, Len(rawURL))]
         ELSE [err |-> FALSE, scheme |-> <<>>, rest |-> rawURL]

getScheme(rawURL) == GetSchemeFrom(rawURL, 1)

\* a "%" that does not start a %XX escape (unescape's EscapeError)
BadEscape(s) ==
    \E k \in 1..Len(s) :
        /\ s[k] = "%"
        /\ ~(k + 2 <= Len(s) /\ s[k + 1] \in HexDigits /\ s[k + 2] \in HexDigits)

NilUrl == [isNil |-> TRUE, Scheme |-> <<>>, Opaque |-> <<>>, Host |-> <<>>, Path |-> <<>>]

MkUrl(scheme, opaque, host, path) ==
    [isNil |-> FALSE, Scheme |-> scheme, Opaque |-> opaque, Host |-> host, Path |-> path]

\* url.Parse: [err, url]
UrlParse(rawURL) ==
    LET g == getScheme(rawURL)
        scheme == ToLower(g.scheme)
        rest == g.rest
        Fail == [err |-> TRUE, url |-> NilUrl]
    IN  IF g.err THEN Fail
        ELSE IF ~HasPrefix(rest, <<Slash>>)
        THEN IF scheme # <<>>
             THEN [err |-> FALSE, url |-> MkUrl(scheme, rest, <<>>, <<>>)]
             ELSE LET cut == IndexOf(rest, Slash)
                      segment == IF cut = 0 THEN rest ELSE SubSeq(rest, 1, cut - 1)
                  IN  IF IndexOf(segment, ":") # 0 \/ BadEscape(rest) THEN Fail
                      ELSE [err |-> FALSE, url |-> MkUrl(scheme, <<>>, <<>>, rest)]
        ELSE IF HasPrefix(rest, <<Slash, Slash>>)
        THEN LET after == SubSeq(rest, 3, Len(rest))
                 cut == IndexOf(after, Slash)
                 authority == IF cut = 0 THEN after ELSE SubSeq(after, 1, cut - 1)
                 path == IF cut = 0 THEN <<>> ELSE SubSeq(after, cut, Len(after))
             IN  IF BadEscape(authority) \/ BadEscape(path) THEN Fail
                 ELSE [err |-> FALSE, url |-> MkUrl(scheme, <<>>, authority, path)]
        ELSE IF BadEscape(rest) THEN Fail
        ELSE [err |-> FALSE, url |-> MkUrl(scheme, <<>>, <<>>, rest)]

\* URL.String
UrlString(u) ==
    (IF u.Scheme # <<>> THEN u.Scheme \o <<":">> ELSE <<>>)
    \o (IF u.Opaque # <<>> THEN u.Opaque
        ELSE (IF (u.Scheme # <<>> \/ u.Host # <<>>) /\ (u.Host # <<>> \/ u.Path # <<>>)
              THEN <<Slash, Slash>> \o u.Host ELSE <<>>)
             \o u.Path)

-----------------------------------------------------------------------------
(* zipstreamer/file_entry.go *)

HTTP == <<"h", "t", "t", "p">>
HTTPS == <<"h", "t", "t", "p", "s">>

\* a FileEntry; raw is a history field (the urlString it was constructed from),
\* which the code does not keep
FileEntry(url, zipPath, raw) == [url |-> url, zipPath |-> zipPath, raw |-> raw]

NoEntry == FileEntry(NilUrl, <<>>, <<>>)

\* NewFileEntry without the test of the prefix
NewFileEntryNoPrefix(urlString, zipPathArg, prefix) ==
    LET zipPath == Clean(zipPathArg)
        parsed == UrlParse(urlString)
        Err(e) == [err |-> e, entry |-> NoEntry]
    IN  IF IsAbs(zipPath) THEN Err("relative")
        ELSE IF HasSuffix(zipPath, <<Slash>>)
        THEN [err |-> "", entry |-> FileEntry(NilUrl, zipPath, <<>>)]
        ELSE IF parsed.err THEN Err("parse")
        ELSE IF parsed.url.Scheme # HTTP /\ parsed.url.Scheme # HTTPS THEN Err("scheme")
        ELSE [err |-> "", entry |-> FileEntry(parsed.url, zipPath, urlString)]

\* NewFileEntry(urlString, zipPath) under the prefix the environment holds:
\* [err, entry], err one of "" (nil), "relative", "parse", "scheme", "prefix"
NewFileEntry(urlString, zipPathArg, prefix) ==
    LET zipPath == Clean(zipPathArg)
        parsed == UrlParse(urlString)
        Err(e) == [err |-> e, entry |-> NoEntry]
    IN  IF IsAbs(zipPath) THEN Err("relative")
        ELSE IF HasSuffix(zipPath, <<Slash>>)
        THEN [err |-> "", entry |-> FileEntry(NilUrl, zipPath, <<>>)]
        ELSE IF parsed.err THEN Err("parse")
        ELSE IF parsed.url.Scheme # HTTP /\ parsed.url.Scheme # HTTPS THEN Err("scheme")
        ELSE IF ~HasPrefix(urlString, prefix) THEN Err("prefix")
        ELSE [err |-> "", entry |-> FileEntry(parsed.url, zipPath, urlString)]


-----------------------------------------------------------------------------
(* zipstreamer/zip_descriptor.go *)

NewZipDescriptor == [suggestedFilenameRaw |-> <<>>, files |-> <<>>]

DotZip == <<46, 122, 105, 112>>                                     \* ".zip"
ArchiveZip == <<97, 114, 99, 104, 105, 118, 101>> \o DotZip         \* "archive.zip"

\* FilterRunes without the test for the double quote
RECURSIVE FilterRunesKeepsQuote(_)
FilterRunesKeepsQuote(rawFilename) ==
    IF rawFilename = <<>> THEN <<>>
    ELSE LET r == Head(rawFilename)
             rest == FilterRunesKeepsQuote(Tail(rawFilename))
         IN  IF r > 31 /\ r < 127 THEN <<r>> \o rest ELSE rest

\* the loop over the runes of rawFilename
RECURSIVE FilterRunes(_)
FilterRunes(rawFilename) ==
    IF rawFilename = <<>> THEN <<>>
    ELSE LET r == Head(rawFilename)
             rest == FilterRunes(Tail(rawFilename))
         IN  IF r > 31 /\ r < 127 /\ r # 34 THEN <<r>> \o rest ELSE rest

\* EscapedSuggestedFilename without the test for an existing .zip suffix
EscapedAlwaysAppends(d) ==
    LET escapedFilename == FilterRunes(d.suggestedFilenameRaw)
    IN  IF escapedFilename # <<>> /\ escapedFilename # DotZip
        THEN escapedFilename \o DotZip
        ELSE ArchiveZip

EscapedSuggestedFilename(d) ==
    LET escapedFilename == FilterRunes(d.suggestedFilenameRaw)
    IN  IF escapedFilename # <<>> /\ escapedFilename # DotZip
        THEN IF HasSuffix(escapedFilename, DotZip)
             THEN escapedFilename
             ELSE escapedFilename \o DotZip
        ELSE ArchiveZip

Files(d) == d.files

\* a payload: valid is FALSE for bytes json.Unmarshal rejects
JsonPayload(name, entries) ==
    [valid |-> TRUE, SuggestedFilename |-> name, Files |-> entries]

BadPayload == [valid |-> FALSE, SuggestedFilename |-> <<>>, Files |-> <<>>]

jsonZipEntry(url, zipPath) == [Url |-> url, ZipPath |-> zipPath]

\* the loop over parsed.Files
RECURSIVE UnmarshalFiles(_, _)
UnmarshalFiles(items, prefix) ==
    IF items = <<>> THEN <<>>
    ELSE LET item == Head(items)
             rest == UnmarshalFiles(Tail(items), prefix)
             made == NewFileEntry(item.Url, item.ZipPath, prefix)
         IN  IF item.Url = <<>> /\ ~HasSuffix(item.ZipPath, <<Slash>>) THEN rest
             ELSE IF made.err = "" THEN <<made.entry>> \o rest
             ELSE rest

\* UnmarshalJsonZipDescriptor: [err, zd]
UnmarshalJsonZipDescriptor(p, prefix) ==
    IF ~p.valid THEN [err |-> TRUE, zd |-> NewZipDescriptor]
    ELSE [err |-> FALSE,
          zd |-> [suggestedFilenameRaw |-> p.SuggestedFilename,
                  files |-> UnmarshalFiles(p.Files, prefix)]]


-----------------------------------------------------------------------------
(* the size estimate of processZipRequest *)

localHeaderSize == 30
centralDirSize == 46
eocdSize == 22

EmptyMap == [k \in {} |-> 0]

\* m[k] of a Go map: the zero value for a missing key
MapGet(m, k) == IF k \in DOMAIN m THEN m[k] ELSE 0

MapPut(m, k, v) == [x \in (DOMAIN m) \cup {k} |-> IF x = k THEN v ELSE m[x]]

\* the loop of calculateZipSize over files, reading fileSizeMap (sizes)
RECURSIVE SizeLoop(_, _)
SizeLoop(files, sizes) ==
    IF files = <<>>
    THEN [totalLocalHeaders |-> 0, totalFileData |-> 0, totalCentralDir |-> 0]
    ELSE LET zipPath == Head(files).zipPath
             filenameLen == Len(zipPath)
             fileSize == MapGet(sizes, zipPath)
             t == SizeLoop(Tail(files), sizes)
         IN  [totalLocalHeaders |-> t.totalLocalHeaders + localHeaderSize + filenameLen,
              totalFileData |-> t.totalFileData + fileSize,
              totalCentralDir |-> t.totalCentralDir + centralDirSize + filenameLen]

\* calculateZipSize(files)
calculateZipSize(files, sizes) ==
    LET t == SizeLoop(files, sizes)
    IN  [totalZipSize |-> t.totalLocalHeaders + t.totalFileData + t.totalCentralDir + eocdSize,
         totalLocalHeaders |-> t.totalLocalHeaders,
         totalFileData |-> t.totalFileData,
         totalCentralDir |-> t.totalCentralDir]

-----------------------------------------------------------------------------
(* archive/zip's Writer as StreamAllFiles drives it: a bufio.Writer over the  *)
(* destination, the headers kept for the central directory, and the entry     *)
(* whose data descriptor is still to be written                               *)

fileHeaderLen == 30         \* local file header, before name and extra
directoryHeaderLen == 46    \* central directory record, before name and extra
directoryEndLen == 22       \* end of central directory record
dataDescriptorLen == 16     \* written after the data of every non-directory entry
extTimeLen == 9             \* extended-timestamp extra field of a header with Modified set

NewWriter == [dir |-> <<>>, last |-> FALSE, count |-> 0, flushed |-> 0,
              err |-> FALSE, closed |-> FALSE]

\* Writer.prepare: close the entry in progress, which writes its data descriptor
ZwPrepare(w) ==
    IF w.last THEN [w EXCEPT !.last = FALSE, !.count = @ + dataDescriptorLen] ELSE w

\* Writer.CreateHeader of a header with Modified set
ZwCreateHeader(w, name) ==
    LET p == ZwPrepare(w)
        isDir == HasSuffix(name, <<Slash>>)
    IN  [p EXCEPT !.dir = Append(@, [name |-> name, isDir |-> isDir, size |-> 0]),
                  !.last = ~isDir,
                  !.count = @ + fileHeaderLen + Len(name) + extTimeLen]

\* n bytes written to the entry in progress
ZwWrite(w, n) ==
    [w EXCEPT !.dir[Len(w.dir)].size = @ + n, !.count = @ + n]

\* Writer.Flush: the bufio.Writer hands what it holds to the destination
ZwFlush(w) == [w EXCEPT !.flushed = w.count]

RECURSIVE CentralDirLen(_)
CentralDirLen(dir) ==
    IF dir = <<>> THEN 0
    ELSE directoryHeaderLen + Len(Head(dir).name) + extTimeLen + CentralDirLen(Tail(dir))

\* Writer.Close: data descriptor of the last entry, central directory, end record, flush
ZwClose(w) ==
    LET p == ZwPrepare(w)
        total == p.count + CentralDirLen(p.dir) + directoryEndLen
    IN  [p EXCEPT !.count = total, !.flushed = total, !.closed = TRUE]

\* the writer after a write to the destination failed: bufio keeps the error
ZwFail(w) == [w EXCEPT !.err = TRUE]

\* Can a write into the bufio.Writer fail?  Always once it holds an error; when
\* the consumer is gone, if the write makes the buffer spill; never otherwise.
WriteFails(w, ok) == IF w.err THEN {TRUE} ELSE IF ok THEN {FALSE} ELSE {TRUE, FALSE}

\* A flush that has bytes to hand over reaches the destination.
FlushFails(w, ok) == IF w.err \/ ~ok THEN {TRUE} ELSE {FALSE}


-----------------------------------------------------------------------------
(* The inputs the model draws *)

SchemeSep == <<":", "/", "/">>
UrlAllowed == HTTP \o SchemeSep \o <<"a", "/", "f">>             \* http://a/f
UrlHttps == HTTPS \o SchemeSep \o <<"a", "/", "f">>              \* https://a/f
UrlOther == HTTP \o SchemeSep \o <<"x", "/", "f">>               \* http://x/f
UrlFtp == <<"f", "t", "p">> \o SchemeSep \o <<"a", "/", "f">>    \* ftp://a/f
UrlUpper == <<"H", "T", "T", "P">> \o SchemeSep \o <<"a", "/", "f">>  \* HTTP://a/f
UrlBadEscape == HTTP \o SchemeSep \o <<"a", "/", "%">>           \* http://a/%
UrlNoScheme == <<"a", "/", "f">>                                 \* a/f
UrlNoProtocol == <<":", "a">>                                    \* :a
UrlOpaque == HTTP \o <<":", "a">>                                \* http:a

Urls == {<<>>, UrlAllowed, UrlHttps, UrlOther, UrlFtp, UrlUpper, UrlBadEscape,
         UrlNoScheme, UrlNoProtocol, UrlOpaque}

PrefixA == HTTP \o SchemeSep \o <<"a", "/">>                     \* http://a/
PrefixUpper == <<"H", "T", "T", "P">> \o SchemeSep \o <<"a", "/">>    \* HTTP://a/
PrefixFtp == <<"f", "t", "p">> \o SchemeSep \o <<"a", "/">>      \* ftp://a/

\* values of ZS_URL_PREFIX; <<>> is the variable unset
Prefixes == {<<>>, PrefixA, PrefixUpper, PrefixFtp}

PathChars == {"a", Dot, Slash}

\* every zipPath of at most MaxPathLen characters
Paths == SeqsUpTo(PathChars, MaxPathLen)

\* what a manifest entry may hold
ManifestUrls == {<<>>, UrlAllowed, UrlOther, UrlUpper}
ManifestPaths == {<<"a">>, <<"a", Slash>>, <<Dot, Dot, Slash, "a">>, <<Slash, "a">>,
                  <<"a", Slash, Slash, "a">>}
ManifestEntries == {jsonZipEntry(u, zp) : u \in ManifestUrls, zp \in ManifestPaths}
Payloads ==
    {BadPayload} \cup {JsonPayload(<<>>, fs) : fs \in SeqsUpTo(ManifestEntries, MaxFiles)}

\* what the folder listing may yield for a file item
DirectLinks == {UrlAllowed, UrlOther, UrlFtp, <<>>}
RelativeZipPaths == {<<"a">>, <<Dot>>}
ItemNames == {<<"a">>}
Sizes == 0..MaxSize

\* what a GET may answer
Statuses == {200, 204, 404}


-----------------------------------------------------------------------------
(* State *)

NoCall == [made |-> FALSE, urlString |-> <<>>, zipPath |-> <<>>, err |-> "",
           entry |-> NoEntry]

NoResp == [status |-> 0, bodyLen |-> 0]

\* no concurrent executions of the handler
NoRequests == <<>>

Init ==
    /\ urlPrefix \in Prefixes
    /\ pc = "start"
    /\ call = NoCall
    /\ payload = BadPayload
    /\ zd = NewZipDescriptor
    /\ unmarshalErr = FALSE
    /\ escaped = <<>>
    /\ fileSizeMap = EmptyMap
    /\ fileEntries = <<>>
    /\ itemSizes = <<>>
    /\ contentLength = -1
    /\ httpError = ""
    /\ idx = 0
    /\ success = 0
    /\ zw = NewWriter
    /\ sinkOk = TRUE
    /\ resp = NoResp
    /\ openBodies = {}
    /\ fetched = <<>>
    /\ ret = "none"
    /\ reqs = NoRequests

descriptorVars == <<payload, zd, unmarshalErr, escaped>>
requestVars == <<fileSizeMap, fileEntries, itemSizes, contentLength>>
streamVars == <<httpError, idx, success, zw, sinkOk, resp, openBodies, fetched, ret>>

-----------------------------------------------------------------------------
(* Calls of the zipstreamer package *)

\* a caller constructs one entry
NewFileEntryCall ==
    /\ pc = "start"
    /\ \E urlString \in Urls, zipPath \in Paths :
          LET made == NewFileEntry(urlString, zipPath, urlPrefix)
          IN  call' = [made |-> TRUE, urlString |-> urlString, zipPath |-> zipPath,
                       err |-> made.err, entry |-> made.entry]
    /\ pc' = "called"
    /\ UNCHANGED <<urlPrefix, reqs, descriptorVars, requestVars, streamVars>>

\* a caller parses a manifest
Unmarshal ==
    /\ pc = "start"
    /\ \E p \in Payloads :
          LET r == UnmarshalJsonZipDescriptor(p, urlPrefix)
          IN  /\ payload' = p
              /\ zd' = r.zd
              /\ unmarshalErr' = r.err
    /\ pc' = "parsed"
    /\ UNCHANGED <<urlPrefix, reqs, call, escaped, requestVars, streamVars>>

-----------------------------------------------------------------------------
(* processZipRequest *)

\* entry of processZipRequest: fileSizeMap = make(map[string]int64)
BeginRequest ==
    /\ pc = "start"
    /\ fileSizeMap' = EmptyMap
    /\ fileEntries' = <<>>
    /\ itemSizes' = <<>>
    /\ pc' = "traverse"
    /\ UNCHANGED <<urlPrefix, reqs, call, descriptorVars, contentLength, streamVars>>

\* traverseFolder handles one file item of a listing
Traverse ==
    /\ pc = "traverse"
    /\ Len(fileEntries) < MaxItems
    /\ \E rel \in RelativeZipPaths, name \in ItemNames, link \in DirectLinks,
          size \in Sizes :
          LET currentZipPath == Join(rel, name)
              made == NewFileEntry(link, currentZipPath, urlPrefix)
          IN  /\ call' = [made |-> TRUE, urlString |-> link, zipPath |-> currentZipPath,
                          err |-> made.err, entry |-> made.entry]
              /\ IF made.err = ""
                 THEN /\ fileEntries' = Append(fileEntries, made.entry)
                      /\ itemSizes' = Append(itemSizes, size)
                      /\ fileSizeMap' = MapPut(fileSizeMap, currentZipPath, size)
                 ELSE UNCHANGED <<fileEntries, itemSizes, fileSizeMap>>
    /\ UNCHANGED <<urlPrefix, reqs, pc, descriptorVars, contentLength, streamVars>>

\* NewZipStream(entries, w): [err]
NewZipStream(entries) == [err |-> Len(entries) = 0]

\* processZipRequest after the traversal, up to the first step of StreamAllFiles:
\* the empty archive for no entries; otherwise the size estimate, the headers,
\* NewZipStream and zip.NewWriter
BeginStream ==
    /\ pc = "traverse"
    /\ call' = NoCall
    /\ itemSizes' = <<>>
    /\ IF Len(fileEntries) = 0
       THEN /\ zw' = ZwClose(NewWriter)
            /\ pc' = "done"
            /\ UNCHANGED <<contentLength, httpError, idx, success>>
       ELSE /\ contentLength' = calculateZipSize(fileEntries, fileSizeMap).totalZipSize
            /\ IF NewZipStream(fileEntries).err
               THEN /\ httpError' = "Failed to create ZIP stream"
                    /\ pc' = "done"
                    /\ UNCHANGED <<zw, success, idx>>
               ELSE /\ zw' = NewWriter
                    /\ UNCHANGED httpError
                    /\ success' = 0
                    /\ idx' = 1
                    /\ pc' = "loop"
    /\ UNCHANGED <<urlPrefix, reqs, descriptorVars, fileSizeMap, fileEntries, sinkOk, resp,
                   openBodies, fetched, ret>>

-----------------------------------------------------------------------------
(* ZipStream.StreamAllFiles *)

\* return from StreamAllFiles: the deferred resp.Body.Close() calls run; the
\* handler answers an error with http.Error
Return(r) ==
    /\ ret' = r
    /\ httpError' = IF r = "nil" THEN httpError ELSE "Failed to stream ZIP"
    /\ openBodies' = {}
    /\ pc' = "done"

\* the head of one iteration: the directory entry of an entry without URL, or
\* the GET of a file entry and the test of its status
Get ==
    /\ pc = "loop"
    /\ idx <= Len(fileEntries)
    /\ LET entry == fileEntries[idx] IN
       IF entry.url.isNil
       THEN LET folderPath == IF HasSuffix(entry.zipPath, <<Slash>>)
                              THEN entry.zipPath
                              ELSE Append(entry.zipPath, Slash)
            IN  \E fail \in WriteFails(zw, sinkOk) :
                   IF fail
                   THEN /\ zw' = ZwFail(zw)
                        /\ Return("errHeader")
                        /\ UNCHANGED <<idx, success, resp, fetched>>
                   ELSE /\ zw' = ZwCreateHeader(zw, folderPath)
                        /\ success' = success + 1
                        /\ idx' = idx + 1
                        /\ UNCHANGED <<pc, resp, openBodies, fetched, ret, httpError>>
       ELSE \E transportErr \in BOOLEAN, status \in Statuses, bodyLen \in Sizes :
               /\ transportErr => status = 200 /\ bodyLen = 0
               /\ status # 200 => bodyLen = 0
               /\ fetched' = Append(fetched,
                                    [idx |-> idx, url |-> UrlString(entry.url),
                                     err |-> transportErr,
                                     status |-> IF transportErr THEN 0 ELSE status,
                                     bodyLen |-> bodyLen])
               /\ IF transportErr
                  THEN /\ idx' = idx + 1
                       /\ UNCHANGED <<pc, resp, openBodies>>
                  ELSE /\ openBodies' = openBodies \cup {idx}
                       /\ IF status # 200
                          THEN /\ idx' = idx + 1
                               /\ UNCHANGED <<pc, resp>>
                          ELSE /\ resp' = [status |-> status, bodyLen |-> bodyLen]
                               /\ pc' = "header"
                               /\ UNCHANGED idx
               /\ UNCHANGED <<success, zw, ret, httpError>>
    /\ UNCHANGED <<urlPrefix, reqs, call, descriptorVars, requestVars, sinkOk>>

\* CreateHeader with its error taken for a soft failure: the loop continues
CreateHeaderSoftFailure ==
    /\ pc = "header"
    /\ \E fail \in WriteFails(zw, sinkOk) :
          IF fail
          THEN /\ zw' = ZwFail(zw)
               /\ idx' = idx + 1
               /\ pc' = "loop"
               /\ UNCHANGED <<openBodies, ret, httpError>>
          ELSE /\ zw' = ZwCreateHeader(zw, fileEntries[idx].zipPath)
               /\ pc' = "copy"
               /\ UNCHANGED <<idx, openBodies, ret, httpError>>
    /\ UNCHANGED <<urlPrefix, reqs, call, descriptorVars, requestVars, success, sinkOk,
                   resp, fetched>>

\* zipWriter.CreateHeader(header) of a file entry
CreateHeader ==
    /\ pc = "header"
    /\ \E fail \in WriteFails(zw, sinkOk) :
          IF fail
          THEN /\ zw' = ZwFail(zw)
               /\ Return("errHeader")
          ELSE /\ zw' = ZwCreateHeader(zw, fileEntries[idx].zipPath)
               /\ pc' = "copy"
               /\ UNCHANGED <<openBodies, ret, httpError>>
    /\ UNCHANGED <<urlPrefix, reqs, call, descriptorVars, requestVars, idx, success, sinkOk,
                   resp, fetched>>

\* io.Copy(entryWriter, resp.Body): it fails when reading the body fails or
\* when a write to the archive fails
Copy ==
    /\ pc = "copy"
    /\ \E readErr \in BOOLEAN, fail \in WriteFails(zw, sinkOk) :
          /\ (fail /\ ~zw.err) => resp.bodyLen > 0
          /\ IF readErr \/ fail
             THEN /\ zw' = IF fail THEN ZwFail(zw) ELSE zw
                  /\ Return("errCopy")
             ELSE /\ zw' = ZwWrite(zw, resp.bodyLen)
                  /\ pc' = "flush"
                  /\ UNCHANGED <<openBodies, ret, httpError>>
    /\ UNCHANGED <<urlPrefix, reqs, call, descriptorVars, requestVars, idx, success, sinkOk,
                   resp, fetched>>

\* the end of an iteration without zipWriter.Flush(): the bytes stay in the buffer
FlushOmitted ==
    /\ pc = "flush"
    /\ success' = success + 1
    /\ idx' = idx + 1
    /\ resp' = NoResp
    /\ pc' = "loop"
    /\ UNCHANGED <<urlPrefix, reqs, call, descriptorVars, requestVars, sinkOk, openBodies,
                   fetched, ret, httpError, zw>>

\* zipWriter.Flush() (its error is dropped), the destination's Flush, success++
Flush ==
    /\ pc = "flush"
    /\ \E fail \in FlushFails(zw, sinkOk) :
          zw' = IF fail THEN ZwFail(zw) ELSE ZwFlush(zw)
    /\ success' = success + 1
    /\ idx' = idx + 1
    /\ resp' = NoResp
    /\ pc' = "loop"
    /\ UNCHANGED <<urlPrefix, reqs, call, descriptorVars, requestVars, sinkOk, openBodies,
                   fetched, ret, httpError>>

\* the test of success after the loop, without the test
StreamResultAlwaysNil(n) == "nil"

\* the test of success after the loop
StreamResult(n) == IF n = 0 THEN "errAllFailed" ELSE "nil"

\* after the loop: zipWriter.Close(), then the test of success
Finish ==
    /\ pc = "loop"
    /\ idx > Len(fileEntries)
    /\ \E fail \in FlushFails(zw, sinkOk) :
          IF fail
          THEN /\ zw' = ZwFail(zw)
               /\ Return("errClose")
          ELSE /\ zw' = ZwClose(zw)
               /\ Return(StreamResult(success))
    /\ UNCHANGED <<urlPrefix, reqs, call, descriptorVars, requestVars, idx, success, sinkOk,
                   resp, fetched>>

\* the consumer of the destination goes away while the archive is streamed
Disconnect ==
    /\ pc \in {"loop", "header", "copy", "flush"}
    /\ sinkOk
    /\ sinkOk' = FALSE
    /\ UNCHANGED <<urlPrefix, reqs, pc, call, descriptorVars, requestVars, idx, success, zw,
                   resp, openBodies, fetched, ret, httpError>>

Next ==
    \/ NewFileEntryCall
    \/ Unmarshal
    \/ BeginRequest
    \/ Traverse
    \/ BeginStream
    \/ Get
    \/ CreateHeader
    \/ Copy
    \/ Flush
    \/ Finish
    \/ Disconnect

Spec == Init /\ [][Next]_vars


-----------------------------------------------------------------------------
(* The suggested file name: a manifest without files is parsed, then the      *)
(* handler asks for EscapedSuggestedFilename                                  *)

\* line feed, double quote, ".", "i", "p", "z", e-acute
NameRunes == {10, 34, 46, 105, 112, 122, 233}

NameEvil == <<101, 118, 105, 108, 34>> \o DotZip                 \* evil".zip
NameReport == <<114, 101, 112, 111, 114, 116>>                   \* report
NameAlready == <<97, 108, 114, 101, 97, 100, 121>> \o DotZip     \* already.zip

RawNames == SeqsUpTo(NameRunes, MaxNameLen) \cup {NameEvil, NameReport, NameAlready}

InitName ==
    /\ urlPrefix = <<>>
    /\ pc = "start"
    /\ call = NoCall
    /\ payload = BadPayload
    /\ zd = NewZipDescriptor
    /\ unmarshalErr = FALSE
    /\ escaped = <<>>
    /\ fileSizeMap = EmptyMap
    /\ fileEntries = <<>>
    /\ itemSizes = <<>>
    /\ contentLength = -1
    /\ httpError = ""
    /\ idx = 0
    /\ success = 0
    /\ zw = NewWriter
    /\ sinkOk = TRUE
    /\ resp = NoResp
    /\ openBodies = {}
    /\ fetched = <<>>
    /\ ret = "none"
    /\ reqs = NoRequests

UnmarshalName ==
    /\ pc = "start"
    /\ \E name \in RawNames :
          LET p == JsonPayload(name, <<>>)
              r == UnmarshalJsonZipDescriptor(p, urlPrefix)
          IN  /\ payload' = p
              /\ zd' = r.zd
              /\ unmarshalErr' = r.err
    /\ pc' = "parsed"
    /\ UNCHANGED <<urlPrefix, reqs, call, escaped, requestVars, streamVars>>

Escape ==
    /\ pc = "parsed"
    /\ escaped' = EscapedSuggestedFilename(zd)
    /\ pc' = "escaped"
    /\ UNCHANGED <<urlPrefix, reqs, call, payload, zd, unmarshalErr, requestVars, streamVars>>

NextName == UnmarshalName \/ Escape

SpecName == InitName /\ [][NextName]_vars

-----------------------------------------------------------------------------
(* Claims about EscapedSuggestedFilename, checked under SpecName *)

EvilDotZip == <<101, 118, 105, 108>> \o DotZip                   \* evil.zip
EvilzipDotZip == <<101, 118, 105, 108, 122, 105, 112>> \o DotZip \* evilzip.zip

EscapedOf(raw, out) ==
    (pc = "escaped" /\ zd.suggestedFilenameRaw = raw) => escaped = out

\* C6 as stated: evil".zip gives evilzip.zip, the empty name archive.zip,
\* report gives report.zip and already.zip stays already.zip.
C6_ExamplesAsStated ==
    /\ EscapedOf(NameEvil, EvilzipDotZip)
    /\ EscapedOf(<<>>, ArchiveZip)
    /\ EscapedOf(NameReport, NameReport \o DotZip)
    /\ EscapedOf(NameAlready, NameAlready)

\* C6 amended: evil".zip gives evil.zip (only the quote is removed, and the
\* name then already ends in .zip); the other three examples as stated.
C6_Examples ==
    /\ EscapedOf(NameEvil, EvilDotZip)
    /\ EscapedOf(<<>>, ArchiveZip)
    /\ EscapedOf(NameReport, NameReport \o DotZip)
    /\ EscapedOf(NameAlready, NameAlready)

C6_Witness == pc = "escaped" /\ zd.suggestedFilenameRaw = NameEvil /\ escaped = EvilDotZip

\* C7: whatever the raw name, the escaped name is non-empty, ends with .zip, is
\* not the bare .zip, and holds only code points 32..126 other than the quote.
C7_EscapedIsSafe ==
    pc = "escaped" =>
        /\ escaped # <<>>
        /\ HasSuffix(escaped, DotZip)
        /\ escaped # DotZip
        /\ \A k \in 1..Len(escaped) :
              escaped[k] >= 32 /\ escaped[k] <= 126 /\ escaped[k] # 34

\* the raw name ".zip" behind a quote was escaped: filtering leaves the bare .zip
C7_Witness ==
    /\ pc = "escaped"
    /\ zd.suggestedFilenameRaw = <<34>> \o DotZip
    /\ escaped = ArchiveZip


-----------------------------------------------------------------------------
(* Claims about the members, the estimate and the stream, checked under Spec *)

\* StreamAllFiles has returned (the request had entries)
Streamed == pc = "done" /\ ret # "none"

\* the outcome of a GET counts as a success: no transport failure, a 2xx status
FetchOk(f) == ~f.err /\ f.status >= 200 /\ f.status <= 299

\* a GET was issued for every entry, in order
AllAttempted ==
    /\ Len(fetched) = Len(fileEntries)
    /\ \A k \in 1..Len(fetched) : fetched[k].idx = k

\* C1: when every fetch succeeds with a body of the size carried for its member,
\* the bytes the stream hands to the sink are as many as calculateZipSize said.
C1_EstimateEqualsStreamed ==
    ( /\ Streamed
      /\ ret = "nil"
      /\ AllAttempted
      /\ \A k \in 1..Len(fetched) :
            /\ ~fetched[k].err
            /\ fetched[k].status = 200
            /\ fetched[k].bodyLen = MapGet(fileSizeMap, fileEntries[k].zipPath) )
    => zw.flushed = contentLength

\* the members that exist: those of the descriptor and those of the request
Members == Range(Files(zd)) \cup Range(fileEntries)

\* C2: a URL string outside the configured prefix never makes a file entry,
\* whatever its scheme; so every member was constructed from a URL string
\* inside the prefix, its URL is the parse of that string, and every GET of
\* the stream asks for the URL of such a member.
C2_OutsidePrefixRejected ==
    /\ ( /\ call.made
         /\ ~HasSuffix(call.zipPath, <<Slash>>)
         /\ ~HasPrefix(call.urlString, urlPrefix) )
       => call.err # ""
    /\ \A m \in Members :
          ~m.url.isNil => /\ HasPrefix(m.raw, urlPrefix)
                          /\ m.url = UrlParse(m.raw).url
    /\ \A k \in 1..Len(fetched) :
          LET m == fileEntries[fetched[k].idx]
          IN  fetched[k].url = UrlString(m.url) /\ HasPrefix(m.raw, urlPrefix)

\* an http URL outside the prefix was refused for the prefix alone
C2_Witness ==
    /\ call.made
    /\ urlPrefix = PrefixA
    /\ call.urlString = UrlOther
    /\ call.zipPath = <<"a">>
    /\ call.err = "prefix"

\* C3: a relative zipPath that ends with the separator makes a directory
\* marker, whose URL is nil, whatever the URL string.
C3_DirectoryMarkerConstructed ==
    ( /\ call.made
      /\ HasSuffix(call.zipPath, <<Slash>>)
      /\ ~IsAbs(call.zipPath) )
    => (call.err = "" /\ call.entry.url.isNil)

\* a path without one trailing separator (the mark of a directory marker)
TrimSlash(path) ==
    IF HasSuffix(path, <<Slash>>) THEN SubSeq(path, 1, Len(path) - 1) ELSE path

\* relative, and no ".", ".." or empty element
CleanRelative(zipPath) ==
    /\ ~IsAbs(zipPath)
    /\ \A k \in 1..Len(Segments(TrimSlash(zipPath))) :
          Segments(TrimSlash(zipPath))[k] \notin {<<>>, <<Dot>>, <<Dot, Dot>>}

\* C4: the zipPath of every constructed member is relative and has no ".",
\* no ".." and no repeated separator.
C4_ZipPathsCleanRelative ==
    /\ (call.made /\ call.err = "") => CleanRelative(call.entry.zipPath)
    /\ \A m \in Members : CleanRelative(m.zipPath)

\* C5's valid entry: a file entry with a relative zipPath and an http/https URL
\* inside the prefix, or a directory marker without URL
ValidFileEntry(e) ==
    /\ ~HasSuffix(e.ZipPath, <<Slash>>)
    /\ ~IsAbs(e.ZipPath)
    /\ ~UrlParse(e.Url).err
    /\ UrlParse(e.Url).url.Scheme \in {HTTP, HTTPS}
    /\ HasPrefix(e.Url, urlPrefix)

ValidDirectoryMarker(e) ==
    /\ HasSuffix(e.ZipPath, <<Slash>>)
    /\ ~IsAbs(e.ZipPath)
    /\ e.Url = <<>>

RECURSIVE ValidEntries(_)
ValidEntries(entries) ==
    IF entries = <<>> THEN <<>>
    ELSE (IF ValidFileEntry(Head(entries)) \/ ValidDirectoryMarker(Head(entries))
          THEN <<Head(entries)>> ELSE <<>>) \o ValidEntries(Tail(entries))

\* C5: for a structurally valid manifest there is no error and Files() is, in
\* manifest order, exactly its valid entries.
C5_FilesAreTheValidEntries ==
    (pc = "parsed" /\ payload.valid) =>
        LET valid == ValidEntries(payload.Files) IN
        /\ ~unmarshalErr
        /\ Len(Files(zd)) = Len(valid)
        /\ \A k \in 1..Len(valid) :
              IF ValidDirectoryMarker(valid[k])
              THEN Files(zd)[k].url.isNil
              ELSE ~Files(zd)[k].url.isNil /\ Files(zd)[k].raw = valid[k].Url

\* the archive entries (name, size of content) the members with a successful
\* fetch make, in the order of the members
RECURSIVE SucceededFrom(_)
SucceededFrom(fs) ==
    IF fs = <<>> THEN <<>>
    ELSE (IF FetchOk(Head(fs))
          THEN <<[name |-> fileEntries[Head(fs).idx].zipPath, isDir |-> FALSE,
                  size |-> Head(fs).bodyLen]>>
          ELSE <<>>) \o SucceededFrom(Tail(fs))

WriterError == ret \in {"errHeader", "errCopy", "errClose"}

\* C8: without an archive-writer error and with at least one successful member,
\* StreamAllFiles returns nil and the archive holds exactly the successful
\* members, in member order.
C8_WrittenAreTheSucceeded ==
    ( /\ Streamed
      /\ ~WriterError
      /\ AllAttempted
      /\ SucceededFrom(fetched) # <<>> )
    => (ret = "nil" /\ zw.dir = SucceededFrom(fetched))

AllFetchesFailed ==
    /\ AllAttempted
    /\ \A k \in 1..Len(fetched) : ~FetchOk(fetched[k])

\* C9 as stated: if every fetch of a list of file members fails, the result is
\* the all-members-failed error; that error comes only after a GET for every
\* member and never with a member written.
C9_AllFailedAsStated ==
    /\ (Streamed /\ AllFetchesFailed) => ret = "errAllFailed"
    /\ ret = "errAllFailed" => (AllAttempted /\ zw.dir = <<>>)

\* C9 amended: ... the result is the all-members-failed error unless the
\* writer's Close fails, and then it is the error of Close.
C9_AllFailedUnlessCloseFails ==
    /\ (Streamed /\ AllFetchesFailed) =>
          ret = (IF zw.closed THEN "errAllFailed" ELSE "errClose")
    /\ ret = "errAllFailed" => (AllAttempted /\ zw.dir = <<>>)

\* two file members, both fetches failed, the archive was finalized
C9_Witness ==
    /\ Streamed
    /\ Len(fileEntries) = 2
    /\ AllFetchesFailed
    /\ fetched[1].err
    /\ fetched[2].status = 404
    /\ ret = "errAllFailed"

\* C10: an error of the archive writer in CreateHeader or io.Copy ends
\* StreamAllFiles at once with that error: no later GET, no later header, and
\* the writer is never closed.
C10_WriterErrorAborts ==
    /\ [](ret \in {"errHeader", "errCopy"} => (pc = "done" /\ ~zw.closed))
    /\ [][ /\ (pc \in {"header", "copy"} /\ pc' # pc /\ zw'.err)
              => /\ pc' = "done"
                 /\ ret' = (IF pc = "header" THEN "errHeader" ELSE "errCopy")
                 /\ fetched' = fetched
                 /\ zw'.dir = zw.dir
                 /\ ~zw'.closed
           /\ ret \in {"errHeader", "errCopy"} => (fetched' = fetched /\ zw' = zw)
         ]_vars

\* the header of the first of two members failed: nothing was asked of the second
C10_Witness ==
    /\ pc = "done"
    /\ ret = "errHeader"
    /\ Len(fileEntries) = 2
    /\ idx = 1
    /\ Len(fetched) = 1
    /\ ~zw.closed

\* C11: a GET is skipped (the loop goes on to the next entry with nothing
\* written) exactly when it failed at transport level or answered a status
\* outside 200..299; after any 2xx answer the header of the entry is next.
C11_SkippedExactlyOnFailure ==
    [][ Len(fetched') = Len(fetched) + 1 =>
           LET f == fetched'[Len(fetched')]
           IN  /\ (pc' = "loop" /\ idx' = idx + 1 /\ zw' = zw /\ success' = success)
                  <=> ~FetchOk(f)
               /\ (pc' = "header" /\ idx' = idx) <=> FetchOk(f)
      ]_vars

\* C14: at most one response body is open at any point of StreamAllFiles, and
\* none when a GET is issued.
C14_AtMostOneOpenBody ==
    /\ [](Cardinality(openBodies) <= 1)
    /\ [][Len(fetched') = Len(fetched) + 1 => openBodies = {}]_vars

\* C15: after a write or a flush to the sink has failed (the writer holds the
\* error), no further GET is issued, and StreamAllFiles returns an error.
C15_SinkFailureAborts ==
    /\ [][zw.err => fetched' = fetched]_vars
    /\ []((Streamed /\ zw.err) => ret # "nil")

RECURSIVE SumSizes(_)
SumSizes(sizes) == IF sizes = <<>> THEN 0 ELSE Head(sizes) + SumSizes(Tail(sizes))

RECURSIVE SumPathLens(_)
SumPathLens(entries) ==
    IF entries = <<>> THEN 0 ELSE Len(Head(entries).zipPath) + SumPathLens(Tail(entries))

\* C16: for every member list of the traversal, lists with two members of the
\* same zipPath included, calculateZipSize returns 30 + len(zipPath) per member
\* of local headers, 46 + len(zipPath) per member of central directory, the
\* sum of the sizes listed for the members as file data, and these plus 22 as
\* the total, which is the declared Content-Length.
C16_EstimateSumsMemberSizes ==
    [][ (pc = "traverse" /\ pc' # pc /\ fileEntries # <<>>) =>
           LET n == Len(fileEntries)
               t == calculateZipSize(fileEntries, fileSizeMap)
           IN  /\ t.totalLocalHeaders = 30 * n + SumPathLens(fileEntries)
               /\ t.totalCentralDir = 46 * n + SumPathLens(fileEntries)
               /\ t.totalFileData = SumSizes(itemSizes)
               /\ t.totalZipSize = t.totalLocalHeaders + t.totalFileData
                                   + t.totalCentralDir + 22
               /\ contentLength' = t.totalZipSize
               /\ n = 1 => contentLength' = (30 + Len(fileEntries[1].zipPath)) + itemSizes[1]
                                            + (46 + Len(fileEntries[1].zipPath)) + 22
      ]_vars

\* the bytes of the archive entries of dir: local header with name and
\* timestamp field, content, and the data descriptor of a file entry
RECURSIVE EntryBytes(_)
EntryBytes(dir) ==
    IF dir = <<>> THEN 0
    ELSE fileHeaderLen + Len(Head(dir).name) + extTimeLen + Head(dir).size
         + (IF Head(dir).isDir THEN 0 ELSE dataDescriptorLen)
         + EntryBytes(Tail(dir))

\* the flush comes after the body copy and before the next GET
FlushBetweenCopyAndGet ==
    [][ /\ (pc = "copy" /\ pc' # pc) => pc' \in {"flush", "done"}
        /\ (pc = "flush" /\ pc' # pc) =>
              /\ pc' = "loop"
              /\ fetched' = fetched
              /\ zw'.dir = zw.dir
              /\ zw'.err \/ zw'.flushed = zw'.count
        /\ Len(fetched') = Len(fetched) + 1 => pc = "loop"
      ]_vars

-----------------------------------------------------------------------------
(* The server that hands the traversal to the zipstreamer package directly:   *)
(* its processZipRequest has no size estimate and no empty-folder case        *)

\* entry of this processZipRequest: var fileEntries []*zipstreamer.FileEntry
BeginRequestDirect ==
    /\ pc = "start"
    /\ fileEntries' = <<>>
    /\ pc' = "traverse"
    /\ UNCHANGED <<urlPrefix, reqs, call, descriptorVars, fileSizeMap, itemSizes,
                   contentLength, streamVars>>

\* this server's traverseFolder handles one file item of a listing
TraverseDirect ==
    /\ pc = "traverse"
    /\ Len(fileEntries) < MaxItems
    /\ \E rel \in RelativeZipPaths, name \in ItemNames, link \in DirectLinks :
          LET currentZipPath == Join(rel, name)
              made == NewFileEntry(link, currentZipPath, urlPrefix)
          IN  /\ call' = [made |-> TRUE, urlString |-> link, zipPath |-> currentZipPath,
                          err |-> made.err, entry |-> made.entry]
              /\ fileEntries' = IF made.err = "" THEN Append(fileEntries, made.entry)
                                ELSE fileEntries
    /\ UNCHANGED <<urlPrefix, reqs, pc, descriptorVars, fileSizeMap, itemSizes,
                   contentLength, streamVars>>

\* this processZipRequest after the traversal: NewZipStream, its error answered
\* with http.Error; otherwise the headers and the first step of StreamAllFiles
BeginStreamDirect ==
    /\ pc = "traverse"
    /\ call' = NoCall
    /\ IF NewZipStream(fileEntries).err
       THEN /\ httpError' = "Failed to create ZIP stream"
            /\ pc' = "done"
            /\ UNCHANGED <<zw, success, idx>>
       ELSE /\ zw' = NewWriter
            /\ success' = 0
            /\ idx' = 1
            /\ pc' = "loop"
            /\ UNCHANGED httpError
    /\ UNCHANGED <<urlPrefix, reqs, descriptorVars, requestVars, sinkOk, resp,
                   openBodies, fetched, ret>>

NextDirect ==
    \/ BeginRequestDirect
    \/ TraverseDirect
    \/ BeginStreamDirect
    \/ Get
    \/ CreateHeader
    \/ Copy
    \/ Flush
    \/ Finish
    \/ Disconnect

SpecDirect == Init /\ [][NextDirect]_vars

\* C12: NewZipStream refuses the empty list, StreamAllFiles never runs on it,
\* and a request whose traversal found no member is answered with an empty,
\* finalized archive and no error.
C12_EmptyListGetsEmptyArchive ==
    /\ NewZipStream(<<>>).err
    /\ pc \in {"loop", "header", "copy", "flush"} => fileEntries # <<>>
    /\ (pc = "done" /\ fileEntries = <<>>) =>
          /\ httpError = ""
          /\ ret = "none"
          /\ zw.closed
          /\ zw.dir = <<>>
          /\ zw.flushed = directoryEndLen

-----------------------------------------------------------------------------
(* Two requests served at once: net/http runs each processZipRequest in its   *)
(* own goroutine; fileEntries and the response are locals of each execution,  *)
(* fileSizeMap is the package variable both of them use, without a lock       *)

Requests == {1, 2}

NewRequest == [pc |-> "start", fileEntries |-> <<>>, itemSizes |-> <<>>,
               contentLength |-> -1]

InitConcurrent ==
    /\ urlPrefix \in Prefixes
    /\ pc = "start"
    /\ call = NoCall
    /\ payload = BadPayload
    /\ zd = NewZipDescriptor
    /\ unmarshalErr = FALSE
    /\ escaped = <<>>
    /\ fileSizeMap = EmptyMap
    /\ fileEntries = <<>>
    /\ itemSizes = <<>>
    /\ contentLength = -1
    /\ httpError = ""
    /\ idx = 0
    /\ success = 0
    /\ zw = NewWriter
    /\ sinkOk = TRUE
    /\ resp = NoResp
    /\ openBodies = {}
    /\ fetched = <<>>
    /\ ret = "none"
    /\ reqs = [r \in Requests |-> NewRequest]

\* everything but fileSizeMap and the locals of the two executions
singleVars == <<urlPrefix, pc, call, descriptorVars, fileEntries, itemSizes,
                contentLength, streamVars>>

\* another execution is between its make(...) and its calculateZipSize, where
\* it writes the map: an access of r to the map is then a data race
Racing(r) == \E q \in Requests \ {r} : reqs[q].pc = "traverse"

\* the runtime's "fatal error: concurrent map writes" (or read and map write):
\* the process ends, and every request with it
Fatal == [q \in Requests |-> [reqs[q] EXCEPT !.pc = "fatal"]]

\* what a racing access to the map may do: go through, or end the process
RaceOutcomes(r) == IF Racing(r) THEN {"ok", "fatal"} ELSE {"ok"}

\* entry of processZipRequest: fileSizeMap = make(map[string]int64)
ReqBegin(r) ==
    /\ reqs[r].pc = "start"
    /\ fileSizeMap' = EmptyMap
    /\ reqs' = [reqs EXCEPT ![r].pc = "traverse"]
    /\ UNCHANGED singleVars

\* traverseFolder of execution r handles one file item of a listing
ReqTraverse(r) ==
    /\ reqs[r].pc = "traverse"
    /\ Len(reqs[r].fileEntries) < MaxItems
    /\ \E rel \in RelativeZipPaths, name \in ItemNames, link \in DirectLinks,
          size \in Sizes, outcome \in RaceOutcomes(r) :
          LET currentZipPath == Join(rel, name)
              made == NewFileEntry(link, currentZipPath, urlPrefix)
          IN  /\ made.err = ""
              /\ IF outcome = "fatal"
                 THEN /\ reqs' = Fatal
                      /\ UNCHANGED fileSizeMap
                 ELSE /\ reqs' = [reqs EXCEPT
                                    ![r].fileEntries = Append(@, made.entry),
                                    ![r].itemSizes = Append(@, size)]
                      /\ fileSizeMap' = MapPut(fileSizeMap, currentZipPath, size)
    /\ UNCHANGED singleVars

\* execution r after its traversal: the empty archive for no entries, otherwise
\* calculateZipSize (which reads fileSizeMap) and the Content-Length header
ReqEstimate(r) ==
    /\ reqs[r].pc = "traverse"
    /\ \E outcome \in RaceOutcomes(r) :
          IF Len(reqs[r].fileEntries) = 0
          THEN reqs' = [reqs EXCEPT ![r].pc = "done"]
          ELSE IF outcome = "fatal"
          THEN reqs' = Fatal
          ELSE reqs' = [reqs EXCEPT
                          ![r].contentLength =
                              calculateZipSize(reqs[r].fileEntries, fileSizeMap).totalZipSize,
                          ![r].pc = "stream"]
    /\ UNCHANGED <<fileSizeMap, singleVars>>

\* NewZipStream and StreamAllFiles of execution r: they use its locals only
ReqStream(r) ==
    /\ reqs[r].pc = "stream"
    /\ reqs' = [reqs EXCEPT ![r].pc = "done"]
    /\ UNCHANGED <<fileSizeMap, singleVars>>

NextConcurrent ==
    \E r \in Requests :
       \/ ReqBegin(r)
       \/ ReqTraverse(r)
       \/ ReqEstimate(r)
       \/ ReqStream(r)

SpecConcurrent == InitConcurrent /\ [][NextConcurrent]_vars

\* the sizes the listing of one execution reported, by zipPath (a later item
\* of the same path replaces an earlier one, as in the execution's own writes)
RECURSIVE OwnSizes(_, _)
OwnSizes(entries, sizes) ==
    IF entries = <<>> THEN EmptyMap
    ELSE MapPut(OwnSizes(SubSeq(entries, 1, Len(entries) - 1),
                         SubSeq(sizes, 1, Len(sizes) - 1)),
                entries[Len(entries)].zipPath, sizes[Len(sizes)])

\* C13: whatever the interleaving, the Content-Length an execution declares is
\* calculateZipSize of its own entries with its own sizes, and no execution
\* ends because of the other.
C13_RequestsAreIndependent ==
    \A r \in Requests :
       /\ reqs[r].pc # "fatal"
       /\ reqs[r].contentLength # -1 =>
             reqs[r].contentLength =
                 calculateZipSize(reqs[r].fileEntries,
                                  OwnSizes(reqs[r].fileEntries, reqs[r].itemSizes)).totalZipSize

-----------------------------------------------------------------------------
(* A caller of the package that parses a manifest and streams its files:      *)
(* UnmarshalJsonZipDescriptor, NewZipStream(zd.Files(), w), StreamAllFiles    *)

StreamedPayloads == {JsonPayload(<<>>, fs) : fs \in SeqsUpTo(ManifestEntries, MaxEntries)}

\* the caller parses a manifest
UnmarshalManifest ==
    /\ pc = "start"
    /\ \E p \in StreamedPayloads :
          LET r == UnmarshalJsonZipDescriptor(p, urlPrefix)
          IN  /\ payload' = p
              /\ zd' = r.zd
              /\ unmarshalErr' = r.err
    /\ pc' = "parsed"
    /\ UNCHANGED <<urlPrefix, reqs, call, escaped, requestVars, streamVars>>

\* the caller hands Files() to NewZipStream and, given a stream, calls
\* StreamAllFiles, which begins with zip.NewWriter
StreamFiles ==
    /\ pc = "parsed"
    /\ ~unmarshalErr
    /\ fileEntries' = Files(zd)
    /\ IF NewZipStream(Files(zd)).err
       THEN /\ pc' = "done"
            /\ UNCHANGED <<zw, success, idx>>
       ELSE /\ zw' = NewWriter
            /\ success' = 0
            /\ idx' = 1
            /\ pc' = "loop"
    /\ UNCHANGED <<urlPrefix, reqs, call, descriptorVars, fileSizeMap, itemSizes,
                   contentLength, httpError, sinkOk, resp, openBodies, fetched, ret>>

NextManifest ==
    \/ UnmarshalManifest
    \/ StreamFiles
    \/ Get
    \/ CreateHeader
    \/ Copy
    \/ Flush
    \/ Finish
    \/ Disconnect

SpecManifest == Init /\ [][NextManifest]_vars

\* a manifest entry that is a directory marker by its zipPath and yet has a URL
MarkerWithUrl(e) == HasSuffix(e.ZipPath, <<Slash>>) /\ ~IsAbs(e.ZipPath) /\ e.Url # <<>>

\* C17: the members made from manifest entries whose zipPath ends with the
\* separator and that carry a URL are directory markers: no GET is issued for
\* them and the archive gets a directory entry without content for each.
C17_MarkerWithUrlIsNotFetched ==
    ( /\ pc # "start"
      /\ payload.valid
      /\ \A k \in 1..Len(payload.Files) : MarkerWithUrl(payload.Files[k]) )
    => /\ Len(Files(zd)) = Len(payload.Files)
       /\ \A k \in 1..Len(Files(zd)) : Files(zd)[k].url.isNil
       /\ fetched = <<>>
       /\ \A k \in 1..Len(zw.dir) : zw.dir[k].isDir /\ zw.dir[k].size = 0
       /\ ret = "nil" => Len(zw.dir) = Len(payload.Files)


====
